---- MODULE Spec2Model ----
(***************************************************************************)
(* elvuiUpdater: one run of main (src/main.go) as a state machine, and the *)
(* version stages of the three revisions (src/unnamed/part_000,            *)
(* src/unnamed/part_001, src/main.go) side by side on the same input.      *)
(*                                                                         *)
(* Text is a sequence of one-character strings.  Versions are fixed-point  *)
(* numbers: the float times Scale.  Paths are sequences of components.     *)
(***************************************************************************)
EXTENDS Integers, Sequences, FiniteSets, TLC

VARIABLES
  pc,            \* position of main
  fs,            \* the filesystem: path -> node
  fs0,           \* the filesystem when main started (history)
  Page,          \* configuration.Page
  Directories,   \* configuration.Directories
  addon,         \* configuration.addon
  localVersion,  \* elvui.localVersion
  remoteVersion, \* elvui.remoteVersion
  downloadURL,   \* elvui.downloadURL
  quiet,         \* the -quiet flag
  zipFiles,      \* zipReader.File
  rmIdx,         \* directories already removed by the first loop
  exIdx,         \* archive entries already processed by the second loop
  logged,        \* messages written by log, in order
  exitStatus,    \* -1 while running, else the exit status
  requests,      \* HTTP requests sent, in order
  stages,        \* stages started, in order (history)
  returned,      \* stage -> "none" | "ok" | "err" (history)
  fault,         \* an I/O operation failed for a reason outside the model
  response,      \* the archive response, once received (history)
  revIn,         \* input of the revision comparison
  revOut         \* revision -> outcome of its version stages

vars == <<pc, fs, fs0, Page, Directories, addon, localVersion, remoteVersion,
          downloadURL, quiet, zipFiles, rmIdx, exIdx, logged, exitStatus,
          requests, stages, returned, fault, response, revIn, revOut>>

mainVars == <<pc, fs, fs0, Page, Directories, addon, localVersion,
              remoteVersion, downloadURL, quiet, zipFiles, rmIdx, exIdx,
              logged, exitStatus, requests, stages, returned, fault, response>>

(***************************************************************************)
(* Bounds                                                                  *)
(***************************************************************************)
MaxLines == 2      \* lines of a version marker file
MaxDirs == 2       \* length of configuration.Directories
MaxEntries == 2    \* entries of an archive

(***************************************************************************)
(* Text                                                                    *)
(***************************************************************************)
\* prefix := "## Version: "
prefix == <<"#", "#", " ", "V", "e", "r", "s", "i", "o", "n", ":", " ">>

\* strings.HasPrefix
HasPrefix(s, p) == Len(s) >= Len(p) /\ SubSeq(s, 1, Len(p)) = p

\* unicode.IsSpace on the characters that occur
IsSpace(c) == c \in {" ", "\t", "\n", "\r"}

\* strings.TrimSpace
RECURSIVE TrimLeft(_)
TrimLeft(s) ==
  IF s # <<>> /\ IsSpace(Head(s)) THEN TrimLeft(Tail(s)) ELSE s

RECURSIVE TrimRight(_)
TrimRight(s) ==
  IF s # <<>> /\ IsSpace(s[Len(s)]) THEN TrimRight(SubSeq(s, 1, Len(s) - 1)) ELSE s

TrimSpace(s) == TrimRight(TrimLeft(s))

Digits == {"0", "1", "2", "3", "4", "5", "6", "7", "8", "9"}

DigitVal(c) ==
  CASE c = "0" -> 0 [] c = "1" -> 1 [] c = "2" -> 2 [] c = "3" -> 3
    [] c = "4" -> 4 [] c = "5" -> 5 [] c = "6" -> 6 [] c = "7" -> 7
    [] c = "8" -> 8 [] c = "9" -> 9

AllDigits(s) == \A i \in 1..Len(s) : s[i] \in Digits

RECURSIVE IntVal(_)
IntVal(s) ==
  IF s = <<>> THEN 0
  ELSE 10 * IntVal(SubSeq(s, 1, Len(s) - 1)) + DigitVal(s[Len(s)])

\* a float64 is kept as the integer float * Scale (two decimal places)
Scale == 10 * 10

FracVal(s) ==
  LET d(i) == IF i <= Len(s) THEN DigitVal(s[i]) ELSE 0
  IN  10 * d(1) + d(2)

\* strconv.ParseFloat(s, 64) on decimal text: [sign] digits [. digits]
ParseFloat(s) ==
  LET signed == s # <<>> /\ Head(s) \in {"+", "-"}
      body   == IF signed THEN Tail(s) ELSE s
      dots   == {i \in 1..Len(body) : body[i] = "."}
      dot    == IF dots = {} THEN Len(body) + 1
                ELSE CHOOSE i \in dots : \A j \in dots : i <= j
      ip     == SubSeq(body, 1, dot - 1)
      fp     == SubSeq(body, dot + 1, Len(body))
      ok     == /\ AllDigits(ip) /\ AllDigits(fp)
                /\ Len(ip) + Len(fp) >= 1
      mag    == IntVal(ip) * Scale + FracVal(fp)
  IN  IF ok
      THEN [err |-> FALSE, val |-> IF signed /\ Head(s) = "-" THEN -mag ELSE mag]
      ELSE [err |-> TRUE, val |-> 0]

(***************************************************************************)
(* The version stages, per revision:                                       *)
(*   0 = src/unnamed/part_000, 1 = src/unnamed/part_001, 2 = src/main.go   *)
(***************************************************************************)
Revisions == {0, 1, 2}
MainRev == 2

\* rawVer without the -1: the line's newline stays in the text
rawVerNoCut(rev, line) ==
  LET cut == SubSeq(line, Len(prefix) + 1, Len(line))
  IN  IF rev = 0 THEN cut ELSE TrimSpace(cut)

\* line[len(prefix) : len(line)-1], trimmed from part_001 on
rawVer(rev, line) ==
  LET cut == SubSeq(line, Len(prefix) + 1, Len(line) - 1)
  IN  IF rev = 0 THEN cut ELSE TrimSpace(cut)

\* the for loop of getLocalVersion over tocReader.ReadString('\n'), reading
\* from position pos; old is e.localVersion before the call
RECURSIVE scanToc(_, _, _, _)
scanToc(rev, data, pos, old) ==
  LET nl == {i \in pos..Len(data) : data[i] = "\n"}
  IN  IF nl = {}
      THEN \* err == io.EOF: break, whatever ReadString returned with it
           [err |-> "notfound", localVersion |-> old]
      ELSE LET e    == CHOOSE i \in nl : \A j \in nl : i <= j
               line == SubSeq(data, pos, e)
           IN  IF HasPrefix(line, prefix)
               THEN LET r == ParseFloat(rawVer(rev, line))
                    IN  [err |-> IF r.err THEN "parse" ELSE "nil",
                         localVersion |-> r.val]
               ELSE scanToc(rev, data, e + 1, old)

\* elvui.getLocalVersion; toc is the marker file, [exists, data]
getLocalVersion(rev, toc, old) ==
  IF ~toc.exists
  THEN [err |-> "open", localVersion |-> old]
  ELSE scanToc(rev, toc.data, 1, old)

\* elvui.getRemoteVersion / the parse of setRemoteVersionNDownloadURL;
\* text is sel.Text() (part_000, part_001) or apiResponse.Version (main.go)
parseRemoteVersion(rev, text) ==
  LET r == ParseFloat(IF rev = 1 THEN TrimSpace(text) ELSE text)
  IN  [err |-> IF r.err THEN "parse" ELSE "nil", remoteVersion |-> r.val]

\* the comparison with >= for >
OutdatedGe(remote, local) == remote >= local

\* conf.remoteVersion > conf.localVersion
Outdated(remote, local) == remote > local

\* main from getLocalVersion to the comparison: what the run does next,
\* with e.localVersion as getLocalVersion left it
versionStages(rev, in) ==
  LET l == getLocalVersion(rev, in.toc, 0)
      r == parseRemoteVersion(rev, in.remote.text)
      o == IF l.err # "nil" THEN [result |-> "abort", why |-> l.err]
           ELSE IF ~in.remote.ok THEN [result |-> "abort", why |-> "fetch"]
           ELSE IF r.err # "nil" THEN [result |-> "abort", why |-> "remote"]
           ELSE IF Outdated(r.remoteVersion, l.localVersion)
                THEN [result |-> "upgrade", why |-> "nil"]
                ELSE [result |-> "nothing", why |-> "nil"]
  IN  [result |-> o.result, why |-> o.why, localVersion |-> l.localVersion]

(***************************************************************************)
(* Inputs of the version stages                                            *)
(***************************************************************************)
VersionTexts == {<<"1">>, <<"2">>, <<"1", ".", "5">>, <<" ", "2">>, <<"x">>}
OtherLine == <<"#", "#", " ", "T">>
LineBodies == {prefix \o t : t \in VersionTexts} \cup {OtherLine}
Terminators == {<<"\n">>, <<"\r", "\n">>}
TerminatedLines == {b \o t : b \in LineBodies, t \in Terminators}

RECURSIVE FilesOf(_)
FilesOf(n) ==
  IF n = 0 THEN {<<>>}
  ELSE FilesOf(n - 1) \cup {f \o l : f \in FilesOf(n - 1), l \in TerminatedLines}

\* files of at most MaxLines lines; the last line may lack its newline
TocFiles ==
  FilesOf(MaxLines) \cup {f \o b : f \in FilesOf(MaxLines - 1), b \in LineBodies}

RemoteTexts == {<<"1">>, <<"2">>, <<"1", ".", "5">>, <<"2", " ">>, <<"x">>, <<>>}

NoToc == [exists |-> FALSE, data |-> <<>>]
Pending == [result |-> "pending", why |-> "nil", localVersion |-> 0]

(***************************************************************************)
(* Paths and the filesystem                                                *)
(***************************************************************************)
\* filepath.Join(base, rel...): the lexical Clean of base/rel
RECURSIVE Join(_, _)
Join(base, rel) ==
  IF rel = <<>> THEN base
  ELSE Join(IF Head(rel) = ".."
            THEN (IF base = <<>> THEN base ELSE SubSeq(base, 1, Len(base) - 1))
            ELSE Append(base, Head(rel)),
            Tail(rel))

\* k.GetStringValue("InstallPath")
InstallPath == <<"WoW">>
\* filepath.Join(s, "Interface", "AddOns")
AddonPath == Join(InstallPath, <<"Interface", "AddOns">>)
\* conf := elvui{localName: "ElvUI", ...}
localName == "ElvUI"
\* filepath.Join(e.addon, e.localName, e.localName+"_Mainline.toc")
tocFile(dir) == Join(dir, <<localName, "ElvUI_Mainline.toc">>)

\* p = q or q lies below p
Within(p, q) == Len(p) <= Len(q) /\ SubSeq(q, 1, Len(p)) = p
Below(p, q) == Within(p, q) /\ p # q
Parent(p) == SubSeq(p, 1, Len(p) - 1)

None == [kind |-> "none", data |-> <<>>]
Dir == [kind |-> "dir", data |-> <<>>]
File(d) == [kind |-> "file", data |-> d]
OldData == <<"o">>

\* names the configuration and the archive may use
DirChoices == {<<"ElvUI">>, <<"ElvUI_Options">>, <<"..">>}
EntryChoices ==
  { [name |-> <<"ElvUI">>, isDir |-> TRUE],
    [name |-> <<"ElvUI", "f.lua">>, isDir |-> FALSE],
    [name |-> <<"ElvUI", "Libs">>, isDir |-> TRUE],
    [name |-> <<"ElvUI_Options">>, isDir |-> TRUE],
    [name |-> <<"ElvUI_Options", "f.lua">>, isDir |-> FALSE],
    [name |-> <<"f.lua">>, isDir |-> FALSE],
    [name |-> <<"..", "f.lua">>, isDir |-> FALSE] }

Universe ==
  LET leaves == {Join(AddonPath, d) : d \in DirChoices}
                \cup {Join(AddonPath, e.name) : e \in EntryChoices}
                \cup {tocFile(AddonPath)}
  IN  UNION {{SubSeq(p, 1, k) : k \in 0..Len(p)} : p \in leaves}

\* os.Remove for os.RemoveAll: only an empty directory or a file goes
RemoveOnly(f, p) ==
  IF \E q \in Universe : Below(p, q) /\ f[q].kind # "none" THEN f
  ELSE [f EXCEPT ![p] = None]

\* os.RemoveAll(p), when it succeeds
RemoveAll(f, p) == [q \in Universe |-> IF Within(p, q) THEN None ELSE f[q]]

\* what a failing os.RemoveAll(p) may leave: nothing removed, or some
\* subtree below p removed
RemoveAllFailed(f, p) ==
  {f} \cup {RemoveAll(f, q) : q \in {u \in Universe : Below(p, u) /\ f[u].kind # "none"}}

\* the longest prefix of p that exists
ExistingPrefix(f, p) ==
  CHOOSE k \in 0..Len(p) :
    /\ f[SubSeq(p, 1, k)].kind # "none"
    /\ \A j \in (k + 1)..Len(p) : f[SubSeq(p, 1, j)].kind = "none"

\* directories p[1..k+1], ..., p[1..m] created
MadeDirs(f, p, k, m) ==
  [q \in Universe |->
     IF Within(q, p) /\ Len(q) > k /\ Len(q) <= m THEN Dir ELSE f[q]]

\* os.MkdirAll(p, mode) with no outside fault
MkdirAll(f, p) ==
  LET k == ExistingPrefix(f, p)
  IN  IF f[SubSeq(p, 1, k)].kind = "file"
      THEN [err |-> TRUE, fs |-> f]
      ELSE [err |-> FALSE, fs |-> MadeDirs(f, p, k, Len(p))]

\* what a failing os.MkdirAll(p) may leave: some of the missing parents made
MkdirAllFailed(f, p) ==
  LET k == ExistingPrefix(f, p)
  IN  IF f[SubSeq(p, 1, k)].kind = "file" THEN {f}
      ELSE {MadeDirs(f, p, k, m) : m \in k..(Len(p) - 1)}

\* os.Create(p) with no outside fault: the parent must be a directory and p
\* must not be one; the file is created or truncated
Create(f, p) ==
  IF p = <<>> \/ f[Parent(p)].kind # "dir" \/ f[p].kind = "dir"
  THEN [err |-> TRUE, fs |-> f]
  ELSE [err |-> FALSE, fs |-> [f EXCEPT ![p] = File(<<>>)]]

\* io.Copy(fileLocal, fileInZip)
Copy(f, p, data) == [f EXCEPT ![p] = File(data)]
\* a copy that failed part way
Partial(data) == SubSeq(data, 1, Len(data) - 1)

(***************************************************************************)
(* Inputs of a run                                                         *)
(***************************************************************************)
RECURSIVE SeqsUpTo(_, _)
SeqsUpTo(S, n) ==
  IF n = 0 THEN {<<>>}
  ELSE SeqsUpTo(S, n - 1)
       \cup {Append(q, x) : q \in {r \in SeqsUpTo(S, n - 1) : Len(r) = n - 1}, x \in S}

NumChar(i) == CHOOSE c \in Digits : DigitVal(c) = i

\* config.json: Page and Directories
Configs ==
  [Page : {"http://api", "::bad"}, Directories : SeqsUpTo(DirChoices, MaxDirs)]

\* the body of a zip archive: its entries in order, file entry i holding "z"i
ArchiveOf(es) ==
  [i \in 1..Len(es) |->
     [name |-> es[i].name, isDir |-> es[i].isDir,
      data |-> IF es[i].isDir THEN <<>> ELSE <<"z", NumChar(i)>>]]
Archives == {ArchiveOf(es) : es \in SeqsUpTo(EntryChoices, MaxEntries)}

\* what the GET of e.Page may bring
PageResponses ==
  {[kind |-> "neterr", version |-> <<>>, url |-> ""],
   [kind |-> "badjson", version |-> <<>>, url |-> ""]}
  \cup [kind : {"json"}, version : RemoteTexts, url : {"http://zip"}]

\* what the GET of e.downloadURL may bring; ContentLength is -1 when the
\* response does not declare one
ArchiveResponses ==
  {[kind |-> "neterr", isZip |-> FALSE, files |-> <<>>, ContentLength |-> -1],
   [kind |-> "readerr", isZip |-> FALSE, files |-> <<>>, ContentLength |-> 1],
   [kind |-> "body", isZip |-> FALSE, files |-> <<>>, ContentLength |-> 1]}
  \cup [kind : {"body"}, isZip : {TRUE}, files : Archives, ContentLength : {-1, 1}]
NoResponse == [kind |-> "none", isZip |-> FALSE, files |-> <<>>, ContentLength |-> -1]

\* the marker files a run may find
RunTocs ==
  {prefix \o <<"1", "\r", "\n">>,
   prefix \o <<"2", "\n">>,
   OtherLine \o <<"\n">>}

\* the installation before the run
Layout(toc) ==
  [q \in Universe |->
     IF Within(q, AddonPath) THEN Dir
     ELSE IF q = Join(AddonPath, <<"ElvUI">>) THEN Dir
     ELSE IF q = tocFile(AddonPath) THEN toc
     ELSE IF q = Join(AddonPath, <<"ElvUI", "f.lua">>) THEN File(OldData)
     ELSE IF q = Join(AddonPath, <<"ElvUI_Options">>) THEN Dir
     ELSE IF q = Join(AddonPath, <<"ElvUI_Options", "f.lua">>) THEN File(OldData)
     ELSE IF q = Join(AddonPath, <<"f.lua">>) THEN File(OldData)
     ELSE IF q = Join(AddonPath, <<"..", "f.lua">>) THEN File(OldData)
     ELSE None]
InitialFilesystems == {Layout(File(d)) : d \in RunTocs} \cup {Layout(None)}

StageOrder ==
  <<"config", "installPath", "localVersion", "remoteVersion", "compare", "archive">>
StageNames == {StageOrder[i] : i \in 1..Len(StageOrder)}

(***************************************************************************)
(* main                                                                    *)
(***************************************************************************)
\* main going on whatever the stage returned
mainCheckIgnore(err, next) == [pc |-> next, exit |-> -1, log |-> <<>>]

\* the message, then exit status 0
FatalfExit0 == [pc |-> "exited", exit |-> 0, log |-> <<"Fatal">>]

\* log.Fatalf: the message, then os.Exit(1)
Fatalf == [pc |-> "exited", exit |-> 1, log |-> <<"Fatal">>]

\* if err := ...; err != nil { log.Fatalf(...) }: what main does with a
\* stage's result
mainCheck(err, next) ==
  IF err THEN Fatalf
  ELSE [pc |-> next, exit |-> -1, log |-> <<>>]

\* a stage returns err to main
Return(stage, err, next) ==
  LET m == mainCheck(err, next)
  IN  /\ returned' = [returned EXCEPT ![stage] = IF err THEN "err" ELSE "ok"]
      /\ pc' = m.pc
      /\ exitStatus' = m.exit
      /\ logged' = logged \o m.log

\* a reader that accepts any body
zipNewReaderAny(r) == [err |-> FALSE, File |-> r.files]

\* zip.NewReader(readerBytes, response.ContentLength): the size must not be
\* negative and the body must hold a zip directory
zipNewReader(r) ==
  IF r.ContentLength < 0 \/ ~r.isZip
  THEN [err |-> TRUE, File |-> <<>>]
  ELSE [err |-> FALSE, File |-> r.files]

Init ==
  /\ pc = "start"
  /\ fs \in InitialFilesystems
  /\ fs0 = fs
  /\ Page = ""
  /\ Directories = <<>>
  /\ addon = <<>>
  /\ localVersion = 0
  /\ remoteVersion = 0
  /\ downloadURL = ""
  /\ quiet \in BOOLEAN
  /\ zipFiles = <<>>
  /\ rmIdx = 0
  /\ exIdx = 0
  /\ logged = <<>>
  /\ exitStatus = -1
  /\ requests = <<>>
  /\ stages = <<>>
  /\ returned = [s \in StageNames |-> "none"]
  /\ fault = FALSE
  /\ response = NoResponse
  /\ revIn = [toc |-> NoToc, remote |-> [ok |-> FALSE, text |-> <<>>]]
  /\ revOut = [r \in Revisions |-> Pending]

\* init: ioutil.ReadFile and json.Unmarshal
LoadConfig ==
  /\ pc = "start"
  /\ stages' = Append(stages, "config")
  /\ \/ \E c \in Configs :
          /\ Page' = c.Page
          /\ Directories' = c.Directories
          /\ returned' = [returned EXCEPT !["config"] = "ok"]
          /\ pc' = "registry"
          /\ UNCHANGED <<exitStatus, logged, fault>>
     \/ /\ fault' = TRUE
        /\ Return("config", TRUE, "registry")
        /\ UNCHANGED <<Page, Directories>>
  /\ UNCHANGED <<fs, fs0, addon, localVersion, remoteVersion, downloadURL, quiet,
                 zipFiles, rmIdx, exIdx, requests, response, revIn, revOut>>

\* init: registry.OpenKey, GetStringValue and filepath.Join
ResolveInstallPath ==
  /\ pc = "registry"
  /\ stages' = Append(stages, "installPath")
  /\ \/ /\ addon' = AddonPath
        /\ Return("installPath", FALSE, "getLocalVersion")
        /\ UNCHANGED fault
     \/ /\ fault' = TRUE
        /\ Return("installPath", TRUE, "getLocalVersion")
        /\ UNCHANGED addon
  /\ UNCHANGED <<fs, fs0, Page, Directories, localVersion, remoteVersion,
                 downloadURL, quiet, zipFiles, rmIdx, exIdx, requests, response,
                 revIn, revOut>>

\* conf.getLocalVersion()
GetLocalVersion ==
  /\ pc = "getLocalVersion"
  /\ stages' = Append(stages, "localVersion")
  /\ LET node == fs[tocFile(addon)]
         toc  == [exists |-> node.kind = "file", data |-> node.data]
         l    == getLocalVersion(MainRev, toc, localVersion)
     IN  \/ /\ localVersion' = l.localVersion
            /\ Return("localVersion", l.err # "nil", "setRemote")
            /\ UNCHANGED fault
         \/ \* os.Open or ReadString fails for an outside reason
            /\ toc.exists
            /\ fault' = TRUE
            /\ Return("localVersion", TRUE, "setRemote")
            /\ UNCHANGED localVersion
  /\ UNCHANGED <<fs, fs0, Page, Directories, addon, remoteVersion, downloadURL,
                 quiet, zipFiles, rmIdx, exIdx, requests, response,
                 revIn, revOut>>

\* conf.setRemoteVersionNDownloadURL()
SetRemoteVersionNDownloadURL ==
  /\ pc = "setRemote"
  /\ stages' = Append(stages, "remoteVersion")
  /\ IF Page = "::bad"
     THEN \* http.NewRequest fails: nothing is sent
          /\ Return("remoteVersion", TRUE, "compare")
          /\ UNCHANGED <<requests, remoteVersion, downloadURL>>
     ELSE /\ requests' = Append(requests, Page)
          /\ \E r \in PageResponses :
               IF r.kind # "json"
               THEN /\ Return("remoteVersion", TRUE, "compare")
                    /\ UNCHANGED <<remoteVersion, downloadURL>>
               ELSE LET v == parseRemoteVersion(MainRev, r.version)
                    IN  /\ remoteVersion' = v.remoteVersion
                        /\ downloadURL' = IF v.err = "nil" THEN r.url ELSE downloadURL
                        /\ Return("remoteVersion", v.err # "nil", "compare")
  /\ UNCHANGED <<fs, fs0, Page, Directories, addon, localVersion, quiet,
                 zipFiles, rmIdx, exIdx, fault, response, revIn, revOut>>

\* if conf.remoteVersion > conf.localVersion { ... } else { ... }
Compare ==
  /\ pc = "compare"
  /\ stages' = Append(stages, "compare")
  /\ returned' = [returned EXCEPT !["compare"] = "ok"]
  /\ IF Outdated(remoteVersion, localVersion)
     THEN /\ logged' = Append(logged, "Upgrading")
          /\ pc' = "download"
     ELSE /\ logged' = Append(logged, "Nothing to do")
          /\ pc' = "finish"
  /\ UNCHANGED <<fs, fs0, Page, Directories, addon, localVersion, remoteVersion,
                 downloadURL, quiet, zipFiles, rmIdx, exIdx, exitStatus,
                 requests, fault, response, revIn, revOut>>

\* downloadAndExtract: http.Get, ioutil.ReadAll, zip.NewReader
Download ==
  /\ pc = "download"
  /\ stages' = Append(stages, "archive")
  /\ requests' = Append(requests, downloadURL)
  /\ \E r \in ArchiveResponses :
       /\ response' = r
       /\ IF r.kind # "body"
          THEN /\ Return("archive", TRUE, "remove")
               /\ UNCHANGED zipFiles
          ELSE LET z == zipNewReader(r)
               IN  /\ zipFiles' = z.File
                   /\ IF z.err
                      THEN Return("archive", TRUE, "remove")
                      ELSE /\ pc' = "remove"
                           /\ UNCHANGED <<returned, exitStatus, logged>>
  /\ UNCHANGED <<fs, fs0, Page, Directories, addon, localVersion, remoteVersion,
                 downloadURL, quiet, rmIdx, exIdx, fault, revIn, revOut>>

\* one pass of "for _, f := range zipReader.File" with no outside fault
extractEntry(f, e, base) ==
  LET p == Join(base, e.name)
  IN  IF e.isDir THEN MkdirAll(f, p)
      ELSE LET c == Create(f, p)
           IN  IF c.err THEN c ELSE [err |-> FALSE, fs |-> Copy(c.fs, p, e.data)]

\* what a pass leaves when f.Open, os.MkdirAll, os.Create or io.Copy fails
\* for an outside reason
extractEntryFailed(f, e, base) ==
  LET p == Join(base, e.name)
  IN  IF e.isDir THEN MkdirAllFailed(f, p)
      ELSE LET c == Create(f, p)
           IN  {f} \cup (IF c.err THEN {}
                         ELSE {c.fs, Copy(c.fs, p, Partial(e.data))})

\* downloadAndExtract: one pass of "for _, dir := range e.Directories"
RemoveDir ==
  /\ pc = "remove"
  /\ rmIdx < Len(Directories)
  /\ LET addonDir == Join(addon, Directories[rmIdx + 1])
     IN  \/ /\ fs' = RemoveAll(fs, addonDir)
            /\ rmIdx' = rmIdx + 1
            /\ UNCHANGED <<pc, returned, exitStatus, logged, fault>>
         \/ /\ fs[addonDir].kind # "none"
            /\ fs' \in RemoveAllFailed(fs, addonDir)
            /\ fault' = TRUE
            /\ Return("archive", TRUE, "remove")
            /\ UNCHANGED rmIdx
  /\ UNCHANGED <<fs0, Page, Directories, addon, localVersion, remoteVersion,
                 downloadURL, quiet, zipFiles, exIdx, requests, stages,
                 response, revIn, revOut>>

\* the first loop is over
RemoveDone ==
  /\ pc = "remove"
  /\ rmIdx = Len(Directories)
  /\ pc' = "extract"
  /\ UNCHANGED <<fs, fs0, Page, Directories, addon, localVersion, remoteVersion,
                 downloadURL, quiet, zipFiles, rmIdx, exIdx, logged, exitStatus,
                 requests, stages, returned, fault, response, revIn, revOut>>

\* the second loop going on to the next entry after an error
ExtractEntryContinue ==
  /\ pc = "extract"
  /\ exIdx < Len(zipFiles)
  /\ fs' = extractEntry(fs, zipFiles[exIdx + 1], addon).fs
  /\ exIdx' = exIdx + 1
  /\ returned' = [returned EXCEPT !["archive"] =
                    IF extractEntry(fs, zipFiles[exIdx + 1], addon).err
                    THEN "err" ELSE @]
  /\ UNCHANGED <<pc, exitStatus, logged, fault>>
  /\ UNCHANGED <<fs0, Page, Directories, addon, localVersion, remoteVersion,
                 downloadURL, quiet, zipFiles, rmIdx, requests, stages,
                 response, revIn, revOut>>

\* downloadAndExtract: one pass of "for _, f := range zipReader.File"
ExtractEntry ==
  /\ pc = "extract"
  /\ exIdx < Len(zipFiles)
  /\ LET e == zipFiles[exIdx + 1]
         r == extractEntry(fs, e, addon)
     IN  \/ /\ fs' = r.fs
            /\ IF r.err
               THEN /\ Return("archive", TRUE, "extract")
                    /\ UNCHANGED exIdx
               ELSE /\ exIdx' = exIdx + 1
                    /\ UNCHANGED <<pc, returned, exitStatus, logged>>
            /\ UNCHANGED fault
         \/ /\ fs' \in extractEntryFailed(fs, e, addon)
            /\ fault' = TRUE
            /\ Return("archive", TRUE, "extract")
            /\ UNCHANGED exIdx
  /\ UNCHANGED <<fs0, Page, Directories, addon, localVersion, remoteVersion,
                 downloadURL, quiet, zipFiles, rmIdx, requests, stages,
                 response, revIn, revOut>>

\* the second loop is over: return nil, and main logs "Success"
ExtractDone ==
  /\ pc = "extract"
  /\ exIdx = Len(zipFiles)
  /\ LET m == mainCheck(FALSE, "finish")
     IN  /\ returned' = [returned EXCEPT !["archive"] = "ok"]
         /\ pc' = m.pc
         /\ exitStatus' = m.exit
         /\ logged' = Append(logged \o m.log, "Success")
  /\ UNCHANGED <<fs, fs0, Page, Directories, addon, localVersion, remoteVersion,
                 downloadURL, quiet, zipFiles, rmIdx, exIdx, requests, stages,
                 fault, response, revIn, revOut>>

\* if *quiet { return }; log.Println("Press 'Enter' to finish...")
Finish ==
  /\ pc = "finish"
  /\ IF quiet
     THEN /\ pc' = "exited"
          /\ exitStatus' = 0
          /\ UNCHANGED logged
     ELSE /\ pc' = "waitEnter"
          /\ logged' = Append(logged, "Press Enter")
          /\ UNCHANGED exitStatus
  /\ UNCHANGED <<fs, fs0, Page, Directories, addon, localVersion, remoteVersion,
                 downloadURL, quiet, zipFiles, rmIdx, exIdx, requests, stages,
                 returned, fault, response, revIn, revOut>>

\* bufio.NewReader(os.Stdin).ReadBytes('\n') returns
Enter ==
  /\ pc = "waitEnter"
  /\ pc' = "exited"
  /\ exitStatus' = 0
  /\ UNCHANGED <<fs, fs0, Page, Directories, addon, localVersion, remoteVersion,
                 downloadURL, quiet, zipFiles, rmIdx, exIdx, logged, requests,
                 stages, returned, fault, response, revIn, revOut>>

Next ==
  \/ LoadConfig
  \/ ResolveInstallPath
  \/ GetLocalVersion
  \/ SetRemoteVersionNDownloadURL
  \/ Compare
  \/ Download
  \/ RemoveDir
  \/ RemoveDone
  \/ ExtractEntry
  \/ ExtractDone
  \/ Finish
  \/ Enter

Spec == Init /\ [][Next]_vars

(***************************************************************************)
(* The three revisions on one input                                        *)
(***************************************************************************)
RevInputs ==
  [toc : {NoToc} \cup {[exists |-> TRUE, data |-> d] : d \in TocFiles},
   remote : {[ok |-> FALSE, text |-> <<>>]}
            \cup {[ok |-> TRUE, text |-> t] : t \in RemoteTexts}]

InitRev ==
  /\ pc = "start"
  /\ fs = Layout(None)
  /\ fs0 = fs
  /\ Page = ""
  /\ Directories = <<>>
  /\ addon = <<>>
  /\ localVersion = 0
  /\ remoteVersion = 0
  /\ downloadURL = ""
  /\ quiet = FALSE
  /\ zipFiles = <<>>
  /\ rmIdx = 0
  /\ exIdx = 0
  /\ logged = <<>>
  /\ exitStatus = -1
  /\ requests = <<>>
  /\ stages = <<>>
  /\ returned = [s \in StageNames |-> "none"]
  /\ fault = FALSE
  /\ response = NoResponse
  /\ revIn \in RevInputs
  /\ revOut = [r \in Revisions |-> Pending]

\* revision r runs its version stages on the input
RunRevision(r) ==
  /\ revOut[r] = Pending
  /\ revOut' = [revOut EXCEPT ![r] = versionStages(r, revIn)]
  /\ UNCHANGED <<mainVars, revIn>>

NextRev == \E r \in Revisions : RunRevision(r)

SpecRev == InitRev /\ [][NextRev]_vars

(***************************************************************************)
(* Properties of the version stages (SpecRev)                              *)
(***************************************************************************)
\* the lines of a file: the text between newlines, each with its newline,
\* and the text after the last newline when there is some
RECURSIVE LinesOf(_)
LinesOf(data) ==
  IF data = <<>> THEN <<>>
  ELSE LET nl == {i \in 1..Len(data) : data[i] = "\n"}
       IN  IF nl = {} THEN <<data>>
           ELSE LET e == CHOOSE i \in nl : \A j \in nl : i <= j
                IN  <<SubSeq(data, 1, e)>> \o LinesOf(SubSeq(data, e + 1, Len(data)))

VersionLines(data) ==
  {i \in 1..Len(LinesOf(data)) : HasPrefix(LinesOf(data)[i], prefix)}

AllRun == \A r \in Revisions : revOut[r] # Pending

\* the text of a line after the prefix, without its line ending
LineText(line) ==
  LET t == SubSeq(line, Len(prefix) + 1, Len(line))
  IN  IF t # <<>> /\ t[Len(t)] = "\n" THEN SubSeq(t, 1, Len(t) - 1) ELSE t

\* no version line and no remote version carries surrounding whitespace
NoSurroundingSpace ==
  /\ \A i \in VersionLines(revIn.toc.data) :
       LET t == LineText(LinesOf(revIn.toc.data)[i]) IN TrimSpace(t) = t
  /\ TrimSpace(revIn.remote.text) = revIn.remote.text

\* the error of the local read, "nil" when it succeeded
LocalWhy(o) == IF o.why \in {"open", "notfound", "parse"} THEN o.why ELSE "nil"

C8_FirstVersionLine ==
  (revOut[MainRev] # Pending /\ revIn.toc.exists) =>
    LET lines == LinesOf(revIn.toc.data)
        vl    == VersionLines(revIn.toc.data)
        out   == revOut[MainRev]
    IN  /\ (out.why = "notfound") <=> (vl = {})
        /\ vl # {} =>
             LET first == CHOOSE i \in vl : \A j \in vl : i <= j
                 v     == ParseFloat(TrimSpace(LineText(lines[first])))
             IN  IF v.err THEN out.why = "parse"
                 ELSE out.why # "parse" /\ out.localVersion = v.val
        /\ out.why = "notfound" => out.localVersion = 0

(***************************************************************************)
(* Properties of a run of main (Spec)                                      *)
(***************************************************************************)
Range(q) == {q[i] : i \in 1..Len(q)}
Started(stage) == stage \in Range(stages)
\* main is past the comparison and not about to download
PastCompare == returned["compare"] = "ok" /\ pc # "download"
Ended == pc \in {"finish", "waitEnter", "exited"}
EntryPath(e) == Join(AddonPath, e.name)
ListedPaths == {Join(AddonPath, Directories[i]) : i \in 1..Len(Directories)}
\* data written by the second loop: whole, cut short, or none yet
FromArchive(data) == data = <<>> \/ Head(data) = "z"

\* C1: the archive stage is started if and only if the four earlier stages
\* succeeded and the remote version is strictly greater than the local one;
\* when it is not greater the run logs "Nothing to do", sends no download
\* request and leaves the filesystem as it was
C1_DownloadIffOutdated ==
  /\ Started("archive") =>
       /\ \A s \in {"config", "installPath", "localVersion", "remoteVersion"} :
            returned[s] = "ok"
       /\ remoteVersion > localVersion
  /\ (PastCompare /\ remoteVersion > localVersion) => Started("archive")
  /\ (PastCompare /\ remoteVersion <= localVersion) =>
       /\ "Nothing to do" \in Range(logged)
       /\ ~Started("archive")
       /\ requests = <<Page>>
       /\ fs = fs0

C1_Witness ==
  /\ pc = "exited"
  /\ returned["compare"] = "ok"
  /\ remoteVersion = localVersion
  /\ localVersion > 0
  /\ "Nothing to do" \in Range(logged)

\* C2: the stages start in the fixed order, each at most once, and none
\* before the one before it has returned successfully
C2_StageOrder ==
  /\ Len(stages) <= Len(StageOrder)
  /\ stages = SubSeq(StageOrder, 1, Len(stages))
  /\ \A i \in 2..Len(stages) : returned[stages[i - 1]] = "ok"

C2_Witness ==
  /\ stages = StageOrder
  /\ returned["archive"] = "ok"

\* C3: when a stage returns an error the process exits there with status 1:
\* no later stage starts, neither "Success" nor "Nothing to do" is logged and
\* the run does not wait for Enter; after a failed local read no request was
\* sent, after a failed remote fetch the filesystem is as it was
C3_AbortOnFirstError ==
  \A s \in StageNames :
    returned[s] = "err" =>
      /\ pc = "exited"
      /\ exitStatus = 1
      /\ stages[Len(stages)] = s
      /\ Range(logged) \cap {"Success", "Nothing to do", "Press Enter"} = {}
      /\ s = "localVersion" => requests = <<>>
      /\ s = "remoteVersion" => fs = fs0

C3_Witness ==
  /\ returned["remoteVersion"] = "err"
  /\ requests = <<Page>>
  /\ pc = "exited"

\* C4: after "Success", below every listed directory there is exactly what
\* the archive holds there (every file is a file entry with that entry's
\* data, every directory is an entry or leads to one, every entry is there)
\* and no file of the previous installation; what existed under the addon
\* directory outside the listed directories and is named by no entry is as
\* it was
C4_ListedReplaced ==
  "Success" \in Range(logged) =>
    LET entries == Range(zipFiles)
    IN  /\ \A D \in ListedPaths : \A q \in Universe :
             Below(D, q) =>
               /\ fs[q].kind = "file" =>
                    \E e \in entries :
                      ~e.isDir /\ EntryPath(e) = q /\ fs[q].data = e.data
               /\ fs[q].kind = "dir" =>
                    \E e \in entries : Within(q, EntryPath(e))
        /\ \A D \in ListedPaths : \A e \in entries :
             Below(D, EntryPath(e)) =>
               fs[EntryPath(e)].kind = IF e.isDir THEN "dir" ELSE "file"
        /\ \A q \in Universe :
             ( /\ Within(AddonPath, q)
               /\ fs0[q].kind # "none"
               /\ \A D \in ListedPaths : ~Within(D, q)
               /\ \A e \in entries : EntryPath(e) # q )
             => fs[q] = fs0[q]

C4_Witness ==
  /\ "Success" \in Range(logged)
  /\ Directories = <<<<"ElvUI">>>>
  /\ Len(zipFiles) = 2
  /\ fs[Join(AddonPath, <<"ElvUI", "f.lua">>)].kind = "file"
  /\ fs[tocFile(AddonPath)].kind = "none"
  /\ fs0[tocFile(AddonPath)].kind = "file"

\* C5 (as claimed): a run that found the installation outdated, received a
\* well-formed zip archive and met no failing file operation ends with
\* "Success" and every entry extracted, whatever the entries' order, with
\* or without directory entries, with or without a declared content length
C5_UpgradeSucceeds ==
  ( /\ Ended
    /\ returned["compare"] = "ok"
    /\ remoteVersion > localVersion
    /\ response.kind = "body"
    /\ response.isZip
    /\ ~fault )
  => /\ "Success" \in Range(logged)
     /\ \A e \in Range(response.files) :
          fs[EntryPath(e)].kind = IF e.isDir THEN "dir" ELSE "file"

\* C6: when downloadAndExtract fails after the archive was accepted, the
\* process exits with status 1 and nothing is undone or carried on: below
\* the directories removed so far there is nothing of the previous
\* installation, the entries extracted so far are in place, and no later
\* entry has been written
C6_NoRollback ==
  (returned["archive"] = "err" /\ response.kind = "body" /\ zipFiles = response.files
     /\ response.isZip /\ response.ContentLength >= 0) =>
    /\ pc = "exited"
    /\ exitStatus = 1
    /\ "Success" \notin Range(logged)
    /\ \A i \in 1..rmIdx : \A q \in Universe :
         Within(Join(AddonPath, Directories[i]), q) =>
           IF exIdx = 0 /\ rmIdx < Len(Directories)
           THEN fs[q] = None
           ELSE fs[q].kind = "file" => FromArchive(fs[q].data)
    /\ \A j \in 1..exIdx :
         fs[EntryPath(zipFiles[j])].kind = IF zipFiles[j].isDir THEN "dir" ELSE "file"
    /\ \A q \in Universe : \A j \in (exIdx + 1)..Len(zipFiles) :
         ~(fs[q].kind = "file" /\ fs[q].data = <<"z", NumChar(j)>>)

C6_Witness ==
  /\ returned["archive"] = "err"
  /\ pc = "exited"
  /\ rmIdx = Len(Directories)
  /\ Directories = <<<<"ElvUI">>>>
  /\ exIdx = 1
  /\ Len(zipFiles) = 2
  /\ fs[Join(AddonPath, <<"ElvUI">>)].kind = "dir"
  /\ fs[tocFile(AddonPath)].kind = "none"
  /\ fs0[tocFile(AddonPath)].kind = "file"

\* C9: nothing is removed before the archive is downloaded whole and
\* accepted as a zip archive: a failed request, a failed read and a body
\* that is no zip archive end in an error with the filesystem as it was;
\* and no entry is written before every listed directory has been removed
C9_RemoveAfterAccept ==
  /\ (response.kind # "none" /\ ~(response.kind = "body" /\ response.isZip)) =>
       /\ fs = fs0
       /\ returned["archive"] = "err"
       /\ pc = "exited"
  /\ fs # fs0 => (response.kind = "body" /\ response.isZip)
  /\ pc \in {"start", "registry", "getLocalVersion", "setRemote", "compare", "download"}
       => fs = fs0
  /\ (pc = "extract" \/ exIdx > 0 \/ \E q \in Universe : fs[q] # fs0[q] /\ fs[q] # None)
       => /\ rmIdx = Len(Directories)
          /\ exIdx = 0 /\ pc = "extract" => \A D \in ListedPaths : fs[D] = None

C9_Witness ==
  /\ response.kind = "body"
  /\ ~response.isZip
  /\ Len(Directories) = 2
  /\ pc = "exited"
  /\ fs[tocFile(AddonPath)].kind = "file"

\* C10 (as claimed): every path a run removes, creates or writes lies inside
\* the addon directory, whatever the configured directories and the entry
\* names, ".." components included
C10_InsideAddon ==
  \A q \in Universe : fs[q] # fs0[q] => Within(AddonPath, q)

====
